---- MODULE Spec2Model ----
(***************************************************************************)
(* Model of convert.py: the conversion of a RequireJS `define([...],       *)
(* function(...){ ... return X; })` module into import/export syntax.      *)
(*                                                                         *)
(* A text is a sequence of lexemes.  Every lexeme is either a run of word  *)
(* characters ([a-zA-Z0-9_]+, e.g. "return", "Backbone", "W"), a single    *)
(* punctuation character, or a single whitespace character.  The regular   *)
(* expressions of the source are translated lexeme by lexeme; the words    *)
(* the expressions name literally (define, function, return, Backbone,     *)
(* extend, class, MetacatUI, root, text) occur in the alphabet only as     *)
(* whole lexemes, so a match at character level is a match at lexeme       *)
(* level and conversely.                                                   *)
(***************************************************************************)
EXTENDS Integers, Sequences, FiniteSets, TLC

(***************************************************************************)
(* Bounds of the input family.                                             *)
(***************************************************************************)
MaxDeps == 2
MaxParams == 2

(***************************************************************************)
(* Lexical classes.                                                        *)
(***************************************************************************)
\* Python's None, distinct from every text: "None" is not a lexeme of the alphabet.
None == <<"None">>

\* \s of the regular expressions
IsSpace(t) == t \in {" ", "\n"}

\* the character class ["\'] of parse_dependencies and remove_metacatui_root
IsQuote(t) == t \in {"'", "\""}

Words ==
  {"define", "function", "return", "Backbone", "Model", "extend", "class",
   "W", "V", "x", "f", "A", "B", "a", "t", "js", "html", "md", "text",
   "MetacatUI", "root", "import", "from", "export", "default", "var"}

\* [a-zA-Z0-9_]+ and \w+ : a lexeme made of word characters
IsWord(t) == t \in Words

\* the lexeme at position i, "" past either end of the text
At(text, i) == IF i \in 1..Len(text) THEN text[i] ELSE ""

\* text[s-1:] of Python, 1-based
From(text, s) == IF s > Len(text) THEN <<>> ELSE SubSeq(text, s, Len(text))

StartsWithAt(text, pat, s) ==
  /\ s >= 1
  /\ s + Len(pat) - 1 <= Len(text)
  /\ SubSeq(text, s, s + Len(pat) - 1) = pat

\* F applied to the value of x (x is evaluated once, before F)
Apply(F(_), x) == CHOOSE r \in {F(v) : v \in {x}} : TRUE

\* greedy \s* from position s: the first position that holds no whitespace
RECURSIVE SkipSpace(_, _)
SkipSpace(text, s) ==
  Apply(LAMBDA p : IF IsSpace(At(text, p)) THEN SkipSpace(text, p + 1) ELSE p, s)

\* greedy \w* from position s
RECURSIVE SkipWord(_, _)
SkipWord(text, s) ==
  Apply(LAMBDA p : IF IsWord(At(text, p)) THEN SkipWord(text, p + 1) ELSE p, s)

\* the first position >= s holding lexeme t, 0 when there is none
RECURSIVE IndexOf(_, _, _)
IndexOf(text, t, s) ==
  Apply(LAMBDA p : IF p > Len(text) THEN 0
                   ELSE IF text[p] = t THEN p
                   ELSE IndexOf(text, t, p + 1), s)

\* str.replace(old, new): every non-overlapping occurrence, left to right
RECURSIVE ReplaceFrom(_, _, _, _)
ReplaceFrom(text, old, new, s) ==
  IF s > Len(text) THEN <<>>
  ELSE IF StartsWithAt(text, old, s)
       THEN new \o ReplaceFrom(text, old, new, s + Len(old))
       ELSE <<text[s]>> \o ReplaceFrom(text, old, new, s + 1)

Replace(text, old, new) ==
  IF old = <<>> THEN text ELSE ReplaceFrom(text, old, new, 1)

\* ---- IMPORTS -------------------------------------------------------------

\* one match of r"\/\/.*?[\n\r]" (DOTALL) starting at s: its last position, 0 if none
CommentEndAt(text, s) ==
  IF At(text, s) = "/" /\ At(text, s + 1) = "/"
  THEN IndexOf(text, "\n", s + 2)
  ELSE 0

\* compiled_pattern.findall(text): the matches, left to right, non-overlapping
RECURSIVE CommentMatches(_, _)
CommentMatches(text, s) ==
  IF s > Len(text) THEN <<>>
  ELSE LET e == CommentEndAt(text, s)
       IN  IF e = 0 THEN CommentMatches(text, s + 1)
           ELSE <<SubSeq(text, s, e)>>
                \o Apply(LAMBDA n : CommentMatches(text, n), e + 1)

\* for match in matches: text = text.replace(match, "")
RECURSIVE RemoveAll(_, _)
RemoveAll(text, matches) ==
  IF matches = <<>> THEN text
  ELSE Apply(LAMBDA t : RemoveAll(t, Tail(matches)), Replace(text, Head(matches), <<>>))

remove_comments(text) ==
  Apply(LAMBDA matches : RemoveAll(text, matches), CommentMatches(text, 1))

\* the position of the MetacatUI.root that a match of
\* r'["\']?\s*\+?\s*MetacatUI\.root\s*\+?\s*["\']?' starting at s reaches, 0 if none
RootPosAt(text, s) ==
  LET a == IF IsQuote(At(text, s)) THEN {s, s + 1} ELSE {s}
      b == {SkipSpace(text, p) : p \in a}
      c == b \cup {p + 1 : p \in {q \in b : At(text, q) = "+"}}
      d == {SkipSpace(text, p) : p \in c}
      hits == {p \in d : StartsWithAt(text, <<"MetacatUI", ".", "root">>, p)}
  IN  IF hits = {} THEN 0 ELSE CHOOSE p \in hits : TRUE

\* the last position of the match whose MetacatUI.root starts at k
RootEndFrom(text, k) ==
  LET p1 == SkipSpace(text, k + 3)
      p2 == IF At(text, p1) = "+" THEN p1 + 1 ELSE p1
      p3 == SkipSpace(text, p2)
  IN  IF IsQuote(At(text, p3)) THEN p3 ELSE p3 - 1

RECURSIVE RootMatches(_, _)
RootMatches(text, s) ==
  IF s > Len(text) THEN <<>>
  ELSE LET k == RootPosAt(text, s)
       IN  IF k = 0 THEN RootMatches(text, s + 1)
           ELSE LET e == RootEndFrom(text, k)
                IN  <<SubSeq(text, s, e)>>
                    \o Apply(LAMBDA n : RootMatches(text, n), e + 1)

remove_metacatui_root(text) ==
  Apply(LAMBDA matches : RemoveAll(text, matches), RootMatches(text, 1))

\* Path(dep) splits on "/" and drops empty and "." components
RECURSIVE SplitOn(_, _)
SplitOn(text, sep) ==
  LET k == IndexOf(text, sep, 1)
  IN  IF k = 0 THEN <<text>>
      ELSE <<SubSeq(text, 1, k - 1)>>
           \o Apply(LAMBDA rest : SplitOn(rest, sep), From(text, k + 1))

PathParts(dep) ==
  SelectSeq(SplitOn(dep, "/"), LAMBDA c : c # <<>> /\ c # <<".">>)

\* Path(dep).name: the final component
PathName(dep) ==
  Apply(LAMBDA parts : IF parts = <<>> THEN <<>> ELSE parts[Len(parts)], PathParts(dep))

\* name.rfind("."), 0 when the name holds no dot
RECURSIVE LastDot(_, _)
LastDot(name, i) ==
  IF i = 0 THEN 0
  ELSE IF name[i] = "." THEN i
  ELSE LastDot(name, i - 1)

\* Path(dep).suffix: from the last dot of the name, unless the dot is the
\* first or the last character of the name
SuffixOf(name) ==
  Apply(LAMBDA i : IF 1 < i /\ i < Len(name) THEN SubSeq(name, i, Len(name)) ELSE <<>>,
        LastDot(name, Len(name)))

PathSuffix(dep) == Apply(SuffixOf, PathName(dep))

txt_ext ==
  {<<".", "js">>, <<".", "html">>, <<".", "css">>, <<".", "json">>, <<".", "txt">>}

\* is_text with .html missing from txt_ext
is_text_no_html(dep) == PathSuffix(dep) \in (txt_ext \ {<<".", "html">>})

is_text(dep) == PathSuffix(dep) \in txt_ext

\* one match of r'["\'](.+?)["\']' starting at s: the position of the closing
\* quote, 0 if a newline or the end of the text comes first
RECURSIVE DepCloseAt(_, _)
DepCloseAt(text, p) ==
  IF p > Len(text) \/ text[p - 1] = "\n" THEN 0
  ELSE IF IsQuote(text[p]) THEN p
  ELSE DepCloseAt(text, p + 1)

\* re.findall(dep_pattern, dependencies): group 1 of every match
RECURSIVE DepMatches(_, _)
DepMatches(text, s) ==
  IF s > Len(text) THEN <<>>
  ELSE LET e == IF IsQuote(text[s]) /\ s + 1 <= Len(text) THEN DepCloseAt(text, s + 2) ELSE 0
       IN  IF e = 0 THEN DepMatches(text, s + 1)
           ELSE <<SubSeq(text, s + 1, e - 1)>>
                \o Apply(LAMBDA n : DepMatches(text, n), e + 1)

parse_dependencies(dependencies) ==
  Apply(LAMBDA t : DepMatches(t, 1),
        Apply(remove_metacatui_root, Apply(remove_comments, dependencies)))

\* str.strip()
RECURSIVE StripRight(_)
StripRight(text) ==
  IF text # <<>> /\ IsSpace(text[Len(text)])
  THEN StripRight(SubSeq(text, 1, Len(text) - 1))
  ELSE text

Strip(text) == StripRight(From(text, SkipSpace(text, 1)))

StripEach(parts) == [k \in 1..Len(parts) |-> Strip(parts[k])]

parse_parameters(parameters) ==
  Apply(StripEach,
        Apply(LAMBDA t : SplitOn(t, ","), Apply(remove_comments, parameters)))

NoDefine == [found |-> FALSE, match |-> <<>>, dependencies |-> <<>>, parameters |-> <<>>]

\* one match of
\* "define\s*\(\s*\[([^\]]+)\]\s*,\s*function\s*\(([^)]+)\)\s*\{" starting at s
DefineAt(text, s) ==
  LET p1 == SkipSpace(text, s + 1)            \* (
      p2 == SkipSpace(text, p1 + 1)           \* [
      q  == IndexOf(text, "]", p2 + 1)        \* ]
      p3 == SkipSpace(text, q + 1)            \* ,
      p4 == SkipSpace(text, p3 + 1)           \* function
      p5 == SkipSpace(text, p4 + 1)           \* (
      r  == IndexOf(text, ")", p5 + 1)        \* )
      p6 == SkipSpace(text, r + 1)            \* {
  IN  IF /\ At(text, s) = "define"
         /\ At(text, p1) = "("
         /\ At(text, p2) = "["
         /\ q > p2 + 1
         /\ At(text, p3) = ","
         /\ At(text, p4) = "function"
         /\ At(text, p5) = "("
         /\ r > p5 + 1
         /\ At(text, p6) = "{"
      THEN [found |-> TRUE,
            match |-> SubSeq(text, s, p6),
            dependencies |-> SubSeq(text, p2 + 1, q - 1),
            parameters |-> SubSeq(text, p5 + 1, r - 1)]
      ELSE NoDefine

\* compiled_pattern.search(js_text): the leftmost match
RECURSIVE DefineSearch(_, _)
DefineSearch(text, s) ==
  IF s > Len(text) THEN NoDefine
  ELSE IF At(text, s) # "define" THEN DefineSearch(text, s + 1)
  ELSE Apply(LAMBDA m : IF m.found THEN m ELSE DefineSearch(text, s + 1),
             DefineAt(text, s))

DefineResult(m) ==
  IF ~m.found THEN NoDefine
  ELSE [found |-> TRUE,
        match |-> m.match,
        dependencies |-> parse_dependencies(m.dependencies),
        parameters |-> parse_parameters(m.parameters)]

find_require_define_text(js_text) == Apply(DefineResult, DefineSearch(js_text, 1))

\* f"import {param} from '{dep}';\n"
ImportLine(param, dep) ==
  <<"import", " ">> \o param \o <<" ", "from", " ", "'">> \o dep \o <<"'", ";", "\n">>

\* if is_text(dep): if dep.startswith("text!"): dep = dep[5:]
StripTextPrefix(dep) ==
  IF is_text(dep) /\ StartsWithAt(dep, <<"text", "!">>, 1) THEN From(dep, 3) ELSE dep

\* one pass of the body of `for i in range(length)` over the results so far
ImportStep(dependencies, parameters, i, acc) ==
  LET dep == IF i <= Len(dependencies) THEN dependencies[i] ELSE None
      param == IF i <= Len(parameters) THEN parameters[i] ELSE None
  IN  IF dep = None
      THEN [acc EXCEPT !.ignored_dependencies = Append(@, dep)]
      ELSE IF param = None
      THEN [acc EXCEPT !.ignored_parameters = Append(@, param)]
      ELSE Apply(LAMBDA statement : [acc EXCEPT !.text = @ \o statement,
                                                !.lines = Append(@, statement)],
                 ImportLine(param, StripTextPrefix(dep)))

\* the loop from index i on
RECURSIVE ImportLoop(_, _, _, _)
ImportLoop(dependencies, parameters, i, acc) ==
  LET length == IF Len(dependencies) >= Len(parameters)
                THEN Len(dependencies) ELSE Len(parameters)
  IN  IF i > length THEN acc
      ELSE Apply(LAMBDA a : ImportLoop(dependencies, parameters, i + 1, a),
                 ImportStep(dependencies, parameters, i, acc))

\* the result also keeps the statements one by one (lines), which the source
\* concatenates into text
write_import_statements(dependencies, parameters) ==
  ImportLoop(dependencies, parameters, 1,
    [text |-> <<>>, lines |-> <<>>,
     ignored_dependencies |-> <<>>, ignored_parameters |-> <<>>])

\* ---- EXPORTS -------------------------------------------------------------

\* one match of r"\}\s*\)\s*;?\s*$" starting at s
ClosingAt(text, s) ==
  LET p1 == SkipSpace(text, s + 1)             \* )
      p2 == SkipSpace(text, p1 + 1)            \* ;?
      p3 == IF At(text, p2) = ";" THEN p2 + 1 ELSE p2
      p4 == SkipSpace(text, p3)                \* $
  IN  At(text, s) = "}" /\ At(text, p1) = ")" /\ p4 > Len(text)

RECURSIVE ClosingSearch(_, _)
ClosingSearch(text, s) ==
  IF s > Len(text) THEN 0
  ELSE IF ClosingAt(text, s) THEN s
  ELSE ClosingSearch(text, s + 1)

\* re.sub(pattern, "", text, count=1): the leftmost match, which runs to the
\* end of the text, is deleted
remove_last_closing_bracket(text) ==
  LET s == ClosingSearch(text, 1)
  IN  IF s = 0 THEN text ELSE SubSeq(text, 1, s - 1)

\* one match of r"@class\s+(\w+)" starting at s: group 1, None if no match
ClassNameAt(text, s) ==
  LET p == SkipSpace(text, s + 2)
  IN  IF /\ At(text, s) = "@"
         /\ At(text, s + 1) = "class"
         /\ IsSpace(At(text, s + 2))
         /\ IsWord(At(text, p))
      THEN SubSeq(text, p, SkipWord(text, p) - 1)
      ELSE None

RECURSIVE ClassNameSearch(_, _)
ClassNameSearch(text, s) ==
  IF s > Len(text) THEN None
  ELSE IF At(text, s) # "@" THEN ClassNameSearch(text, s + 1)
  ELSE Apply(LAMBDA m : IF m # None THEN m ELSE ClassNameSearch(text, s + 1),
             ClassNameAt(text, s))

\* the position of the `extend` that ends the lazy group (.*?) begun at p:
\* the first `extend(` on the line, 0 if there is none
RECURSIVE ExtendFrom(_, _)
ExtendFrom(text, p) ==
  IF p > Len(text) THEN 0
  ELSE IF text[p] = "extend" /\ At(text, p + 1) = "(" THEN p
  ELSE IF text[p] = "\n" THEN 0
  ELSE ExtendFrom(text, p + 1)

\* one match of r"return\s+?Backbone\.(.*?)extend\(" starting at s:
\* [g |-> first position of group 1, e |-> position of extend], e = 0 if no match
BackboneAt(text, s) ==
  LET p == SkipSpace(text, s + 1)
  IN  IF /\ At(text, s) = "return"
         /\ IsSpace(At(text, s + 1))
         /\ At(text, p) = "Backbone"
         /\ At(text, p + 1) = "."
      THEN [g |-> p + 2, e |-> ExtendFrom(text, p + 2)]
      ELSE [g |-> 0, e |-> 0]

\* re.sub(pattern, f"var {class_name} = Backbone.\\1extend(", js_text)
RECURSIVE BackboneSub(_, _, _)
BackboneSub(text, class_name, s) ==
  IF s > Len(text) THEN <<>>
  ELSE LET m == BackboneAt(text, s)
       IN  IF m.e = 0
           THEN <<text[s]>> \o BackboneSub(text, class_name, s + 1)
           ELSE <<"var", " ">> \o class_name \o <<" ", "=", " ", "Backbone", ".">>
                \o SubSeq(text, m.g, m.e - 1) \o <<"extend", "(">>
                \o Apply(LAMBDA n : BackboneSub(text, class_name, n), m.e + 2)

\* re.search(pattern, js_text)
HasBackbone(text) == \E s \in 1..Len(text) : BackboneAt(text, s).e # 0

Standardize(js_text, class_name) ==
  IF class_name # None /\ HasBackbone(js_text)
  THEN [text |-> Apply(remove_last_closing_bracket, BackboneSub(js_text, class_name, 1)),
        export_name |-> class_name]
  ELSE [text |-> js_text, export_name |-> class_name]

standardize_return_text(js_text) ==
  Apply(LAMBDA class_name : Standardize(js_text, class_name), ClassNameSearch(js_text, 1))

NoReturn == [found |-> FALSE, match |-> None, export_name |-> None]

\* one match of r"return\s*([a-zA-Z0-9_]+)\s*;?\s*\}\s*\);?" starting at s
ReturnAt(text, s) ==
  LET p  == SkipSpace(text, s + 1)             \* identifier
      w  == SkipWord(text, p)
      p2 == SkipSpace(text, w)                 \* ;?
      p3 == IF At(text, p2) = ";" THEN p2 + 1 ELSE p2
      p4 == SkipSpace(text, p3)                \* }
      p5 == SkipSpace(text, p4 + 1)            \* )
      e  == IF At(text, p5 + 1) = ";" THEN p5 + 1 ELSE p5
  IN  IF /\ At(text, s) = "return"
         /\ IsWord(At(text, p))
         /\ At(text, p4) = "}"
         /\ At(text, p5) = ")"
      THEN [found |-> TRUE, match |-> SubSeq(text, s, e), export_name |-> SubSeq(text, p, w - 1)]
      ELSE NoReturn

\* compiled_pattern.search(js_text): the leftmost match
RECURSIVE ReturnSearch(_, _)
ReturnSearch(text, s) ==
  IF s > Len(text) THEN NoReturn
  ELSE IF At(text, s) # "return" THEN ReturnSearch(text, s + 1)
  ELSE Apply(LAMBDA m : IF m.found THEN m ELSE ReturnSearch(text, s + 1),
             ReturnAt(text, s))

ReturnResult(js_text_standard) ==
  LET match == ReturnSearch(js_text_standard.text, 1)
  IN  IF match.found THEN match
      ELSE IF js_text_standard.export_name # None
      THEN [found |-> TRUE, match |-> None, export_name |-> js_text_standard.export_name]
      ELSE NoReturn

find_return_text(js_text) == Apply(ReturnResult, standardize_return_text(js_text))

\* f"export default {export_name};\n"
write_export_statement(export_name) ==
  <<"export", " ", "default", " ">> \o export_name \o <<";", "\n">>

ErrNoDefine == "No require/define statement found"
ErrNoReturn == "No return statement found"

\* require_to_import_export as one function of the text (lines 249-309)
require_to_import_export(text) ==
  LET define == find_require_define_text(text)
      import_text == write_import_statements(define.dependencies, define.parameters)
      t1 == IF define.found
            THEN import_text.text \o Replace(text, define.match, <<>>)
            ELSE text
      e1 == IF define.found THEN <<>> ELSE <<ErrNoDefine>>
      return_statement == find_return_text(t1)
      t2 == IF return_statement.found /\ return_statement.match # None
            THEN Replace(t1, return_statement.match, <<>>)
            ELSE t1
      t3 == IF return_statement.found
            THEN t2 \o write_export_statement(return_statement.export_name)
            ELSE t2
      e2 == IF return_statement.found THEN e1 ELSE Append(e1, ErrNoReturn)
  IN  [original_text |-> text,
       dependencies |-> define.dependencies,
       parameters |-> define.parameters,
       export_name |-> return_statement.export_name,
       new_text |-> t3,
       errors |-> e2,
       ignored_dependencies |-> IF define.found THEN import_text.ignored_dependencies ELSE <<>>,
       ignored_parameters |-> IF define.found THEN import_text.ignored_parameters ELSE <<>>]

\* ---- INPUT FAMILY ---------------------------------------------------------

RECURSIVE Join(_, _)
Join(items, sep) ==
  IF items = <<>> THEN <<>>
  ELSE IF Len(items) = 1 THEN items[1]
  ELSE items[1] \o sep \o Join(Tail(items), sep)

\* entries of a dependency array, as written in the file
DepPool ==
  { <<"'", ".", "/", "A", ".", "js", "'">>,                        \* './A.js'
    <<"'", "text", "!", "t", ".", "html", "'">>,                   \* 'text!t.html'
    <<"\"", "text", "!", "a", ".", "md", "\"">>,                   \* "text!a.md"
    <<"'", "text", "!", "'", " ", "+", " ", "MetacatUI", ".", "root", " ", "+", " ",
      "'", "/", "t", ".", "html", "'">>,                           \* 'text!' + MetacatUI.root + '/t.html'
    <<"'", "a", "'", " ", "/", "/", " ", "x", "\n">> }             \* 'a' // x

\* entries of a parameter list, as written in the file
ParamPool == { <<"A">>, <<" ", "B">> }

SeqsUpTo(S, lo, hi) == UNION {[1..n -> S] : n \in lo..hi}

\* define([d1, d2], function(p1,p2) {
Header(deps, params) ==
  <<"define", "(", "[">>
  \o (IF deps = <<>> THEN <<" ">> ELSE Join(deps, <<",", " ">>))
  \o <<"]", ",", " ", "function", "(">> \o Join(params, <<",">>) \o <<")", " ", "{">>

Headers ==
  {Header(ds, ps) : ds \in SeqsUpTo(DepPool, 0, MaxDeps),
                    ps \in SeqsUpTo(ParamPool, 1, MaxParams)}

\* no header; one dependency for one parameter; one dependency for two parameters
BasicHeaders ==
  { <<>>,
    Header(<< <<"'", ".", "/", "A", ".", "js", "'">> >>, << <<"A">> >>),
    Header(<< <<"'", ".", "/", "A", ".", "js", "'">> >>, << <<"A">>, <<" ", "B">> >>) }

ClassMarker == <<"/", "*", "*", " ", "@", "class", " ", "W", " ", "*", "/", "\n">>
InnerCallback ==
  <<"f", "(", "function", "(", ")", "{", " ", "return", " ", "x", ";", " ", "}", ")", ";", "\n">>

Bodies ==
  { <<"\n">>,
    <<"\n">> \o ClassMarker,
    <<"\n">> \o InnerCallback,
    <<"\n">> \o ClassMarker \o InnerCallback }

Tails ==
  { <<"}", ")", ";">>,                                              \* });
    <<"return", " ", "V", ";", " ", "}", ")", ";">>,                \* return V; });
    <<"return", " ", "x", ";", " ", "}", ")", ";">>,                \* return x; });
    <<"return", " ", "V", "\n", "}", ")">>,                         \* return V\n})
    <<"return", " ", "Backbone", ".", "Model", ".", "extend", "(", "{", "}", ")", ";",
      "\n", "}", ")", ";", "\n">> }                  \* return Backbone.Model.extend({});\n});\n

\* every header before a plain module body, and every body and tail after a
\* basic header
InputTexts ==
  {h \o <<"\n">> \o <<"return", " ", "V", ";", " ", "}", ")", ";">> : h \in Headers}
  \cup {h \o b \o t : h \in BasicHeaders, b \in Bodies, t \in Tails}

\* ---- THE CONVERSION OF ONE FILE --------------------------------------------

VARIABLES js_text, pc, new_text, errors, props, define, import_text, return_statement

vars == <<js_text, pc, new_text, errors, props, define, import_text, return_statement>>

NoImports ==
  [text |-> <<>>, lines |-> <<>>, ignored_dependencies |-> <<>>, ignored_parameters |-> <<>>]

\* lines 252-263
Init ==
  /\ js_text \in InputTexts
  /\ pc = "header"
  /\ new_text = js_text
  /\ errors = <<>>
  /\ props = [original_text |-> js_text,
              dependencies |-> <<>>,
              parameters |-> <<>>,
              export_name |-> None,
              new_text |-> None,
              errors |-> <<>>,
              ignored_dependencies |-> <<>>,
              ignored_parameters |-> <<>>]
  /\ define = NoDefine
  /\ import_text = NoImports
  /\ return_statement = NoReturn

\* lines 266-274, returning early when no header is found
FindDefineAborts ==
  /\ pc = "header"
  /\ define' = find_require_define_text(js_text)
  /\ IF ~define'.found
     THEN /\ errors' = Append(errors, ErrNoDefine)
          /\ pc' = "assembled"
          /\ UNCHANGED <<new_text, props>>
     ELSE /\ props' = [props EXCEPT !.dependencies = define'.dependencies,
                                    !.parameters = define'.parameters]
          /\ new_text' = Replace(new_text, define'.match, <<>>)
          /\ pc' = "imports"
          /\ UNCHANGED errors
  /\ UNCHANGED <<js_text, import_text, return_statement>>

\* lines 266-274
FindDefine ==
  /\ pc = "header"
  /\ define' = find_require_define_text(js_text)
  /\ IF ~define'.found
     THEN /\ errors' = Append(errors, ErrNoDefine)
          /\ pc' = "footer"
          /\ UNCHANGED <<new_text, props>>
     ELSE /\ props' = [props EXCEPT !.dependencies = define'.dependencies,
                                    !.parameters = define'.parameters]
          /\ new_text' = Replace(new_text, define'.match, <<>>)
          /\ pc' = "imports"
          /\ UNCHANGED errors
  /\ UNCHANGED <<js_text, import_text, return_statement>>

\* lines 276-285
WriteImports ==
  /\ pc = "imports"
  /\ import_text' = write_import_statements(define.dependencies, define.parameters)
  /\ new_text' = import_text'.text \o new_text
  /\ props' = [props EXCEPT !.ignored_dependencies = import_text'.ignored_dependencies,
                            !.ignored_parameters = import_text'.ignored_parameters]
  /\ pc' = "footer"
  /\ UNCHANGED <<js_text, errors, define, return_statement>>

\* lines 289-297
FindReturn ==
  /\ pc = "footer"
  /\ return_statement' = find_return_text(new_text)
  /\ IF ~return_statement'.found
     THEN /\ errors' = Append(errors, ErrNoReturn)
          /\ pc' = "assemble"
          /\ UNCHANGED <<new_text, props>>
     ELSE /\ props' = [props EXCEPT !.export_name = return_statement'.export_name]
          /\ new_text' = IF return_statement'.match # None
                         THEN Replace(new_text, return_statement'.match, <<>>)
                         ELSE new_text
          /\ pc' = "export"
          /\ UNCHANGED errors
  /\ UNCHANGED <<js_text, define, import_text>>

\* lines 299-304
WriteExport ==
  /\ pc = "export"
  /\ new_text' = new_text \o write_export_statement(return_statement.export_name)
  /\ pc' = "assemble"
  /\ UNCHANGED <<js_text, errors, props, define, import_text, return_statement>>

\* lines 306-309
Assemble ==
  /\ pc = "assemble"
  /\ props' = [props EXCEPT !.new_text = new_text, !.errors = errors]
  /\ pc' = "assembled"
  /\ UNCHANGED <<js_text, new_text, errors, define, import_text, return_statement>>

Next == FindDefine \/ WriteImports \/ FindReturn \/ WriteExport \/ Assemble

Spec == Init /\ [][Next]_vars

\* the script runs each conversion to its end: no step is left waiting
LiveSpec == Spec /\ WF_vars(Next)

\* ---- PROPERTIES -----------------------------------------------------------

EndsWith(text, suffix) ==
  /\ Len(suffix) <= Len(text)
  /\ SubSeq(text, Len(text) - Len(suffix) + 1, Len(text)) = suffix

Occurrences(text, pat) == {s \in 1..Len(text) : StartsWithAt(text, pat, s)}

DeleteAt(text, s, n) == SubSeq(text, 1, s - 1) \o From(text, s + n)

Min(a, b) == IF a <= b THEN a ELSE b

ImportsDone == define.found /\ pc \notin {"header", "imports"}

FooterDone == pc \in {"export", "assemble", "assembled"}

HasHeaderPattern(text) == \E s \in 1..Len(text) : DefineAt(text, s).found

ReturnStarts(text) == {s \in 1..Len(text) : ReturnAt(text, s).found}

\* the text without its header, which the conversion should keep
Headerless == Replace(js_text, define.match, <<>>)

\* the text the footer stage receives
FooterInput == IF define.found THEN import_text.text \o Headerless ELSE js_text

ExportLine(name) == <<"export", " ", "default", " ">> \o name \o <<";", "\n">>

\* C1: a file with a header, an `@class C` marker and a tail
\* `return Backbone.<X>extend({...});` followed by the wrapper's `});`, and no
\* `return <identifier>; });`, is converted to export name C, and its new text
\* is the imports, then the body with `var C = Backbone.<X>extend(` in place of
\* `return Backbone.<X>extend(` and the trailing `});` removed once, then
\* `export default C;\n`.
C1_ClassRewriteExport ==
  LET C == ClassNameSearch(js_text, 1)
  IN  ( /\ pc = "assembled"
        /\ define.found
        /\ C # None
        /\ HasBackbone(js_text)
        /\ ReturnStarts(js_text) = {}
        /\ ClosingSearch(js_text, 1) # 0 )
      => /\ props.export_name = C
         /\ EndsWith(props.new_text, ExportLine(C))
         /\ ~HasBackbone(props.new_text)
         /\ props.new_text =
              import_text.text
              \o remove_last_closing_bracket(BackboneSub(Headerless, C, 1))
              \o ExportLine(C)

\* C2: the ignored dependencies and the import lines together are as many as
\* the dependencies, and the ignored parameters and the import lines together
\* are as many as the parameters, also when the two lists differ in length.
C2_MatchedLength ==
  ImportsDone =>
    /\ Len(import_text.ignored_dependencies) + Len(import_text.lines)
         = Len(define.dependencies)
    /\ Len(import_text.ignored_parameters) + Len(import_text.lines)
         = Len(define.parameters)

\* C3: an index that only one list reaches gets no import line, and the
\* leftover element itself is recorded in the ignored list of its own kind:
\* leftover parameters in ignored_parameters, leftover dependencies in
\* ignored_dependencies.
C3_MismatchHandling ==
  ImportsDone =>
    LET n == Len(define.dependencies)
        m == Len(define.parameters)
    IN  /\ Len(import_text.lines) = Min(n, m)
        /\ import_text.ignored_parameters =
             IF m > n THEN SubSeq(define.parameters, n + 1, m) ELSE <<>>
        /\ import_text.ignored_dependencies =
             IF n > m THEN SubSeq(define.dependencies, m + 1, n) ELSE <<>>

\* C4: converting the converted text again reports the missing header and
\* leaves the text as it is.
C4_SecondPassStable ==
  pc = "assembled" =>
    LET r2 == require_to_import_export(props.new_text)
    IN  /\ \E k \in 1..Len(r2.errors) : r2.errors[k] = ErrNoDefine
        /\ r2.new_text = props.new_text

\* C5: a text with no define header, no `return <identifier>;? } );?` and no
\* `return Backbone.<X>extend(` comes back unchanged, with no export name and
\* with both the header-not-found and the footer-not-found errors.
C5_RoundTripNonAMD ==
  ( /\ pc = "assembled"
    /\ ~HasHeaderPattern(js_text)
    /\ ReturnStarts(js_text) = {}
    /\ ~HasBackbone(js_text) )
  => /\ props.new_text = js_text
     /\ props.export_name = None
     /\ props.errors = <<ErrNoDefine, ErrNoReturn>>

\* C6: when a header and a footer span are found, the new text is the imports,
\* then the original text with one header span and one footer span deleted
\* and every other lexeme kept in order, then the export line.
C6_BodyVerbatim ==
  ( /\ pc = "assembled"
    /\ define.found
    /\ return_statement.found
    /\ return_statement.match # None )
  => \E hp \in Occurrences(js_text, define.match) :
       LET body == DeleteAt(js_text, hp, Len(define.match))
       IN  \E fp \in Occurrences(body, return_statement.match) :
             props.new_text =
               import_text.text
               \o DeleteAt(body, fp, Len(return_statement.match))
               \o ExportLine(return_statement.export_name)

KnownExt == {"js", "html", "css", "json", "txt"}

\* the path the import of dependency d names
C7_Path(d) ==
  IF /\ \E e \in KnownExt : PathSuffix(d) = <<".", e>>
     /\ Len(d) >= 2 /\ d[1] = "text" /\ d[2] = "!"
  THEN SubSeq(d, 3, Len(d))
  ELSE d

\* C7: for dependencies d[1..n] and parameters p[1..m] exactly min(n,m) import
\* lines are written, in index order, line i being
\* `import p[i] from '<path_i>';\n`, where path_i is d[i] without a leading
\* `text!` when the extension of d[i] is .js .html .css .json or .txt, and d[i]
\* otherwise; the parameter name is written as it is.
C7_ImportSynthesis ==
  ImportsDone =>
    LET d == define.dependencies
        p == define.parameters
        k == Min(Len(d), Len(p))
    IN  /\ Len(import_text.lines) = k
        /\ \A i \in 1..k :
             import_text.lines[i] =
               <<"import", " ">> \o p[i] \o <<" ", "from", " ", "'">>
               \o C7_Path(d[i]) \o <<"'", ";", "\n">>
        /\ import_text.text = Join(import_text.lines, <<>>)

\* C7 witness: two imports written, one with its `text!` removed and one that
\* keeps it
C7_Witness ==
  /\ ImportsDone
  /\ Len(import_text.lines) = 2
  /\ \E i \in 1..2 : C7_Path(define.dependencies[i]) # define.dependencies[i]
  /\ \E i \in 1..2 : /\ StartsWithAt(define.dependencies[i], <<"text", "!">>, 1)
                     /\ C7_Path(define.dependencies[i]) = define.dependencies[i]

StageRank(stage) ==
  CASE stage = "header" -> 1
    [] stage = "imports" -> 2
    [] stage = "footer" -> 3
    [] stage = "export" -> 4
    [] stage = "assemble" -> 5
    [] stage = "assembled" -> 6

C8_Result ==
  /\ props.new_text # None
  /\ props.errors =
       (IF HasHeaderPattern(js_text) THEN <<>> ELSE <<ErrNoDefine>>)
       \o (IF return_statement.found THEN <<>> ELSE <<ErrNoReturn>>)

\* C8: the conversion of a file never aborts: the stages come in the order
\* header, imports, footer, export, assembled; the footer stage is reached
\* also when the header stage failed; the end is always reached, with a new
\* text, and with the header error exactly when no header was found and the
\* footer error exactly when no footer was found, header error first.
C8_NeverAborts ==
  /\ [][StageRank(pc') > StageRank(pc)]_vars
  /\ <>(pc = "footer")
  /\ <>(pc = "assembled")
  /\ [](pc = "assembled" => C8_Result)

\* C8 witness: both stages failed and the result is assembled all the same
C8_Witness ==
  /\ pc = "assembled"
  /\ ~define.found
  /\ ~return_statement.found
  /\ props.new_text = js_text

\* C9: the span find_return_text returns is the last `return <identifier>;? }
\* );?` of the text it searches, and the export name is its identifier; an
\* earlier one that closes an inner callback is never chosen.
C9_TrailingReturn ==
  ( /\ FooterDone
    /\ return_statement.found
    /\ return_statement.match # None )
  => LET text == standardize_return_text(FooterInput).text
         last == CHOOSE s \in ReturnStarts(text) : \A u \in ReturnStarts(text) : u <= s
     IN  /\ return_statement.match = ReturnAt(text, last).match
         /\ return_statement.export_name = ReturnAt(text, last).export_name

\* C10: find_return_text returns the class name with no span only when the
\* text holds both an `@class C` marker and a `return Backbone.<X>extend(`;
\* for a text with the marker but neither that expression nor a `return
\* <identifier>;? } );?` it returns nothing, the footer-not-found error is
\* recorded and no export line is appended.
C10_FooterAbsence ==
  FooterDone =>
    /\ (return_statement.found /\ return_statement.match = None)
         => (ClassNameSearch(FooterInput, 1) # None /\ HasBackbone(FooterInput))
    /\ ( /\ ClassNameSearch(FooterInput, 1) # None
         /\ ~HasBackbone(FooterInput)
         /\ ReturnStarts(FooterInput) = {} )
         => /\ ~return_statement.found
            /\ \E k \in 1..Len(errors) : errors[k] = ErrNoReturn
            /\ new_text = FooterInput

====
